---- MODULE Spec2Model ----
(***************************************************************************)
(* Model of the GET /lightning-address-details handler of main.go and of   *)
(* the two functions it calls, ToUrl and GetJSON.                          *)
(*                                                                         *)
(* Strings are sequences of characters.  A URL is a sequence whose         *)
(* elements are the literal pieces of the format string and the            *)
(* characters substituted for the %s verbs.  An HTTP exchange is a         *)
(* nondeterministic choice of what http.Get returns.                       *)
(***************************************************************************)
EXTENDS Integers, Sequences, FiniteSets, TLC

\* ---------------------------------------------------------------- bounds
\* Longest identifier passed in the ln query parameter.
MaxLen == 3

\* Characters an identifier is made of: a letter, a character that has a
\* meaning inside a URL, and the separator.
Chars == {"u", "/", "@"}

\* Status codes an upstream answers with.
StatusCodes == {200, 299, 300, 301, 404, 500}

\* Response bodies an upstream answers with.
Bodies == {"not-json", "null", "{\"a\":1}", "{\"b\":2}"}

\* ---------------------------------------------------------------- values
\* Go's nil interface{} value, marshalled as JSON null.
Nil == "nil"

StatusBadRequest == 400

StatusOK == 200

\* A nil *http.Response.
NilResponse == [present |-> FALSE, StatusCode |-> 0, Body |-> "none"]

\* &LNResponse{}: both fields nil.
LNResponse == [Lnurlp |-> Nil, Keysend |-> Nil]

\* What http.Get(url) returns: (nil, err) when no response was obtained,
\* (response, nil) for a response, and (response, err) with the last 3xx
\* response when the client's redirect limit stops the request.
HttpGet ==
  {[response |-> NilResponse, err |-> TRUE]}
    \cup {[response |-> [present |-> TRUE, StatusCode |-> s, Body |-> b], err |-> FALSE] :
            s \in StatusCodes, b \in Bodies}
    \cup {[response |-> [present |-> TRUE, StatusCode |-> 302, Body |-> "closed"], err |-> TRUE]}

RECURSIVE SeqsUpTo(_)
SeqsUpTo(n) ==
  IF n = 0 THEN {<<>>}
  ELSE LET shorter == SeqsUpTo(n - 1)
       IN shorter \cup {Append(s, c) : s \in {t \in shorter : Len(t) = n - 1}, c \in Chars}

\* Values of the ln query parameter.
Identifiers == SeqsUpTo(MaxLen)

\* ------------------------------------------------------- pure functions
\* json.NewDecoder(body).Decode(&j): the decoded value and whether it failed.
Decode(body) ==
  CASE body = "null" -> [j |-> Nil, err |-> FALSE]
    [] body = "{\"a\":1}" -> [j |-> "map[a:1]", err |-> FALSE]
    [] body = "{\"b\":2}" -> [j |-> "map[b:2]", err |-> FALSE]
    [] OTHER -> [j |-> Nil, err |-> TRUE]

\* strings.SplitN(s, "@", 2): cuts at the first separator only.
SplitFirstOnly(s) ==
  LET at == {i \in DOMAIN s : s[i] = "@"}
  IN IF at = {} THEN <<s>>
     ELSE LET i == CHOOSE k \in at : \A m \in at : k <= m
          IN <<SubSeq(s, 1, i - 1), SubSeq(s, i + 1, Len(s))>>

\* strings.Split(s, "@")
RECURSIVE Split(_)
Split(s) ==
  LET at == {i \in DOMAIN s : s[i] = "@"}
  IN IF at = {} THEN <<s>>
     ELSE LET i == CHOOSE k \in at : \A m \in at : k <= m
          IN <<SubSeq(s, 1, i - 1)>> \o Split(SubSeq(s, i + 1, Len(s)))

\* ToUrl with the two results returned in the wrong order.
ToUrlSwapped(identifier) ==
  LET parts == Split(identifier)
  IN IF Len(parts) # 2
     THEN [lnurlpUrl |-> <<>>, keysendUrl |-> <<>>, err |-> TRUE]
     ELSE [lnurlpUrl |-> <<"https://">> \o parts[2] \o <<"/.well-known/keysend/">> \o parts[1],
           keysendUrl |-> <<"https://">> \o parts[2] \o <<"/.well-known/lnurlp/">> \o parts[1],
           err |-> FALSE]

ToUrl(identifier) ==
  LET parts == Split(identifier)
  IN IF Len(parts) # 2
     THEN [lnurlpUrl |-> <<>>, keysendUrl |-> <<>>, err |-> TRUE]
     ELSE [lnurlpUrl |-> <<"https://">> \o parts[2] \o <<"/.well-known/lnurlp/">> \o parts[1],
           keysendUrl |-> <<"https://">> \o parts[2] \o <<"/.well-known/keysend/">> \o parts[1],
           err |-> FALSE]

\* GetJSON that drops the response when the body does not decode.
GetJSONDropsUndecoded(got) ==
  IF got.err \/ got.response.StatusCode > 300
  THEN [j |-> Nil, response |-> got.response, err |-> TRUE]
  ELSE LET d == Decode(got.response.Body)
       IN IF d.err
          THEN [j |-> Nil, response |-> NilResponse, err |-> TRUE]
          ELSE [j |-> d.j, response |-> got.response, err |-> FALSE]

\* GetJSON(url), given what http.Get(url) returned.
GetJSON(got) ==
  IF got.err \/ got.response.StatusCode > 300
  THEN [j |-> Nil, response |-> got.response, err |-> TRUE]
  ELSE LET d == Decode(got.response.Body)
       IN IF d.err
          THEN [j |-> Nil, response |-> got.response, err |-> TRUE]
          ELSE [j |-> d.j, response |-> got.response, err |-> FALSE]

\* The status decision without its first branch.
DecideStatusNoBadRequest(lr, kr) ==
  IF lr.present /\ kr.present /\ lr.StatusCode > 300 /\ kr.StatusCode > 300
  THEN lr.StatusCode
  ELSE StatusOK

\* The status the handler answers with once both fetches are done.
DecideStatus(lr, kr) ==
  IF ~lr.present /\ ~kr.present
  THEN StatusBadRequest
  ELSE IF lr.present /\ kr.present /\ lr.StatusCode > 300 /\ kr.StatusCode > 300
       THEN lr.StatusCode
       ELSE StatusOK

\* ----------------------------------------------------------------- state
VARIABLES
  pc,               \* position of the handler
  ln,               \* the ln query parameter
  lnurlpUrl,
  keysendUrl,
  lnurlpResponse,
  keysendResponse,
  responseBody,
  lnurlpGot,        \* what http.Get returned for the lnurlp URL
  keysendGot,       \* what http.Get returned for the keysend URL
  calls,            \* outbound GETs issued, in order
  returned,         \* fields whose GET has returned, in order
  replies           \* responses written to the caller, in order

vars == <<pc, ln, lnurlpUrl, keysendUrl, lnurlpResponse, keysendResponse,
          responseBody, lnurlpGot, keysendGot, calls, returned, replies>>

NotFetched == [response |-> NilResponse, err |-> FALSE]

Init ==
  /\ pc = "idle"
  /\ ln = <<>>
  /\ lnurlpUrl = <<>>
  /\ keysendUrl = <<>>
  /\ lnurlpResponse = NilResponse
  /\ keysendResponse = NilResponse
  /\ responseBody = LNResponse
  /\ lnurlpGot = NotFetched
  /\ keysendGot = NotFetched
  /\ calls = <<>>
  /\ returned = <<>>
  /\ replies = <<>>

\* --------------------------------------------------------------- actions
\* The handler is entered: ToUrl, and the 400 answer when it fails.
Request ==
  /\ pc = "idle"
  /\ \E identifier \in Identifiers :
       LET u == ToUrl(identifier)
       IN /\ ln' = identifier
          /\ lnurlpUrl' = u.lnurlpUrl
          /\ keysendUrl' = u.keysendUrl
          /\ responseBody' = LNResponse
          /\ IF u.err
             THEN /\ replies' = Append(replies, [status |-> StatusBadRequest, body |-> LNResponse])
                  /\ pc' = "done"
             ELSE /\ replies' = replies
                  /\ pc' = "lnurlp"
  /\ UNCHANGED <<lnurlpResponse, keysendResponse, lnurlpGot, keysendGot, calls, returned>>

\* GetJSON(lnurlpUrl) issues its GET and blocks.
CallLnurlp ==
  /\ pc = "lnurlp"
  /\ calls' = Append(calls, [field |-> "lnurlp", url |-> lnurlpUrl])
  /\ pc' = "lnurlpWait"
  /\ UNCHANGED <<ln, lnurlpUrl, keysendUrl, lnurlpResponse, keysendResponse,
                 responseBody, lnurlpGot, keysendGot, returned, replies>>

\* The lnurlp fetch that ends the request when it fails.
ReturnLnurlpAborting ==
  /\ pc = "lnurlpWait"
  /\ \E got \in HttpGet :
       LET r == GetJSON(got)
       IN /\ lnurlpGot' = got
          /\ lnurlpResponse' = r.response
          /\ responseBody' = IF r.err THEN responseBody ELSE [responseBody EXCEPT !.Lnurlp = r.j]
          /\ pc' = IF r.err THEN "decide" ELSE "keysend"
  /\ returned' = Append(returned, "lnurlp")
  /\ UNCHANGED <<ln, lnurlpUrl, keysendUrl, keysendResponse, keysendGot, calls, replies>>

\* GetJSON(lnurlpUrl) returns; the error is logged or the field is set.
ReturnLnurlp ==
  /\ pc = "lnurlpWait"
  /\ \E got \in HttpGet :
       LET r == GetJSON(got)
       IN /\ lnurlpGot' = got
          /\ lnurlpResponse' = r.response
          /\ responseBody' = IF r.err THEN responseBody ELSE [responseBody EXCEPT !.Lnurlp = r.j]
  /\ returned' = Append(returned, "lnurlp")
  /\ pc' = "keysend"
  /\ UNCHANGED <<ln, lnurlpUrl, keysendUrl, keysendResponse, keysendGot, calls, replies>>

\* GetJSON(keysendUrl) issues its GET and blocks.
CallKeysend ==
  /\ pc = "keysend"
  /\ calls' = Append(calls, [field |-> "keysend", url |-> keysendUrl])
  /\ pc' = "keysendWait"
  /\ UNCHANGED <<ln, lnurlpUrl, keysendUrl, lnurlpResponse, keysendResponse,
                 responseBody, lnurlpGot, keysendGot, returned, replies>>

\* GetJSON(keysendUrl) returns; the error is logged or the field is set.
ReturnKeysend ==
  /\ pc = "keysendWait"
  /\ \E got \in HttpGet :
       LET r == GetJSON(got)
       IN /\ keysendGot' = got
          /\ keysendResponse' = r.response
          /\ responseBody' = IF r.err THEN responseBody ELSE [responseBody EXCEPT !.Keysend = r.j]
  /\ returned' = Append(returned, "keysend")
  /\ pc' = "decide"
  /\ UNCHANGED <<ln, lnurlpUrl, keysendUrl, lnurlpResponse, lnurlpGot, calls, replies>>

\* The status decision and the answer to the caller.
Respond ==
  /\ pc = "decide"
  /\ replies' = Append(replies, [status |-> DecideStatus(lnurlpResponse, keysendResponse),
                                 body |-> responseBody])
  /\ pc' = "done"
  /\ UNCHANGED <<ln, lnurlpUrl, keysendUrl, lnurlpResponse, keysendResponse,
                 responseBody, lnurlpGot, keysendGot, calls, returned>>

Next ==
  \/ Request
  \/ CallLnurlp
  \/ ReturnLnurlp
  \/ CallKeysend
  \/ ReturnKeysend
  \/ Respond

Spec == Init /\ [][Next]_vars

\* ---------------------------------------------------- terms of the claims
\* Number of '@' characters in s.
AtCount(s) == Cardinality({i \in DOMAIN s : s[i] = "@"})

\* The text before and the text after the '@' of a string that has one.
AtIndex(s) == CHOOSE i \in DOMAIN s : s[i] = "@"

LocalPart(s) == [i \in 1..(AtIndex(s) - 1) |-> s[i]]

DomainPart(s) == [i \in 1..(Len(s) - AtIndex(s)) |-> s[AtIndex(s) + i]]

\* A local part and a domain, both non-empty, around one '@'.
WellFormed(s) == AtCount(s) = 1 /\ LocalPart(s) # <<>> /\ DomainPart(s) # <<>>

\* The request has been answered.
Answered == pc = "done" /\ Len(replies) = 1

\* Outcomes of one upstream exchange.
Unreachable(got) == ~got.response.present

OkStatus(got) == got.response.present /\ ~got.err /\ got.response.StatusCode < 300

FailureStatus(got) == got.response.present /\ got.response.StatusCode >= 300

Undecodable(got) == OkStatus(got) /\ got.response.Body = "not-json"

Succeeds(got) == OkStatus(got) /\ got.response.Body # "not-json"

\* The JSON value of a body, as the caller would read it.
ValueOf(body) ==
  IF body = "{\"a\":1}" THEN "map[a:1]"
  ELSE IF body = "{\"b\":2}" THEN "map[b:2]"
  ELSE Nil

\* ------------------------------------------------------------------ C1
\* C1: an identifier that does not contain exactly one '@' is answered
\* with status 400 and a result whose two fields are nil, and no outbound
\* GET is issued for it.
C1_NotOneAtIsBadRequest ==
  (pc # "idle" /\ AtCount(ln) # 1) =>
    /\ Answered
    /\ replies[1] = [status |-> 400, body |-> [Lnurlp |-> Nil, Keysend |-> Nil]]
    /\ calls = <<>>

C1_Witness == Answered /\ AtCount(ln) >= 2 /\ replies[1].status = 400

\* ------------------------------------------------------------------ C2
\* C2: an identifier whose split on '@' does not give exactly two
\* non-empty parts ("@domain", "user@", "@") is answered with status 400
\* and an empty result, and no outbound GET is issued for it.
C2_EmptyPartIsBadRequest ==
  (pc # "idle" /\ ~WellFormed(ln)) =>
    /\ Answered
    /\ replies[1] = [status |-> 400, body |-> [Lnurlp |-> Nil, Keysend |-> Nil]]
    /\ calls = <<>>

\* ------------------------------------------------------------------ C3
\* C3: for an accepted identifier local@domain the GET issued for the
\* lnurlp field goes to https://{domain}/.well-known/lnurlp/{local} and
\* the GET issued for the keysend field to
\* https://{domain}/.well-known/keysend/{local}, the parts unchanged.
C3_UrlsFromTemplates ==
  \A i \in DOMAIN calls :
    /\ AtCount(ln) = 1
    /\ calls[i].field = "lnurlp" =>
         calls[i].url = <<"https://">> \o DomainPart(ln) \o <<"/.well-known/lnurlp/">> \o LocalPart(ln)
    /\ calls[i].field = "keysend" =>
         calls[i].url = <<"https://">> \o DomainPart(ln) \o <<"/.well-known/keysend/">> \o LocalPart(ln)

C3_Witness ==
  /\ Len(calls) = 2
  /\ ln = <<"u", "@", "/">>
  /\ calls[1].url = <<"https://", "/", "/.well-known/lnurlp/", "u">>
  /\ calls[2].url = <<"https://", "/", "/.well-known/keysend/", "u">>

\* ------------------------------------------------------------------ C4
\* C4: when neither GET of an accepted address obtained a response, the
\* request is answered with status 400 and both fields nil.
C4_BothUnreachableIsBadRequest ==
  (Answered /\ AtCount(ln) = 1 /\ Unreachable(lnurlpGot) /\ Unreachable(keysendGot)) =>
    replies[1] = [status |-> 400, body |-> [Lnurlp |-> Nil, Keysend |-> Nil]]

C4_Witness ==
  /\ Answered /\ Len(returned) = 2
  /\ Unreachable(lnurlpGot) /\ Unreachable(keysendGot)
  /\ replies[1].status = 400

\* ------------------------------------------------------------------ C5
\* C5: when both endpoints of a well-formed address answered and both
\* answers carry a failure status, the request is answered with the status
\* code of the lnurlp answer and both fields nil.
C5_BothFailedMirrorsLnurlp ==
  (Answered /\ WellFormed(ln) /\ FailureStatus(lnurlpGot) /\ FailureStatus(keysendGot)) =>
    replies[1] = [status |-> lnurlpGot.response.StatusCode,
                  body |-> [Lnurlp |-> Nil, Keysend |-> Nil]]

\* ------------------------------------------------------------------ C6
\* C6: when at least one fetch of a well-formed address succeeds (ok
\* status and decodable body), the request is answered with status 200 and
\* each field holds the value decoded from its own endpoint if that fetch
\* succeeded and nil otherwise.
C6_OneSuccessIsOk ==
  (Answered /\ WellFormed(ln) /\ (Succeeds(lnurlpGot) \/ Succeeds(keysendGot))) =>
    /\ replies[1].status = 200
    /\ replies[1].body.Lnurlp =
         IF Succeeds(lnurlpGot) THEN ValueOf(lnurlpGot.response.Body) ELSE Nil
    /\ replies[1].body.Keysend =
         IF Succeeds(keysendGot) THEN ValueOf(keysendGot.response.Body) ELSE Nil

\* ------------------------------------------------------------------ C7
\* C7: an answer with an ok status and an undecodable body counts as a
\* received response, leaves its field nil and does not cause a failure
\* status: two such answers give 200 with both fields nil, and one such
\* answer beside an unreachable endpoint gives 200.
C7_UndecodableIsReceived ==
  (Answered /\ AtCount(ln) = 1) =>
    /\ Undecodable(lnurlpGot) => (lnurlpResponse.present /\ replies[1].body.Lnurlp = Nil)
    /\ Undecodable(keysendGot) => (keysendResponse.present /\ replies[1].body.Keysend = Nil)
    /\ (Undecodable(lnurlpGot) /\ Undecodable(keysendGot)) =>
         replies[1] = [status |-> 200, body |-> [Lnurlp |-> Nil, Keysend |-> Nil]]
    /\ (Undecodable(lnurlpGot) /\ Unreachable(keysendGot)) => replies[1].status = 200
    /\ (Unreachable(lnurlpGot) /\ Undecodable(keysendGot)) => replies[1].status = 200

C7_Witness ==
  /\ Answered /\ Len(returned) = 2
  /\ Undecodable(lnurlpGot) /\ Unreachable(keysendGot)
  /\ replies[1] = [status |-> 200, body |-> [Lnurlp |-> Nil, Keysend |-> Nil]]

\* ------------------------------------------------------------------ C8
\* C8: a fetch succeeds only if its answer has a status code strictly
\* below 300: an answer with status 300 or more is not decoded, leaves its
\* field nil, and two such answers give a status other than 200.
C8_From300IsFailure ==
  WellFormed(ln) =>
    /\ ("lnurlp" \in {returned[i] : i \in DOMAIN returned} /\ FailureStatus(lnurlpGot)) =>
         responseBody.Lnurlp = Nil
    /\ ("keysend" \in {returned[i] : i \in DOMAIN returned} /\ FailureStatus(keysendGot)) =>
         responseBody.Keysend = Nil
    /\ (Answered /\ FailureStatus(lnurlpGot) /\ FailureStatus(keysendGot)) =>
         replies[1].status # 200

\* ------------------------------------------------------------------ C9
\* C9: when both fetches of a well-formed address fail, each one either
\* unreachable or answered with a failure status, the request is answered
\* with a status other than 200.  The failure statuses taken here are the
\* ones above 300, which GetJSON counts as failures too, so that the
\* statement does not depend on how status 300 is treated.
FailureAbove300(got) == got.response.present /\ got.response.StatusCode > 300

C9_BothFailIsNot200 ==
  (Answered /\ WellFormed(ln)
     /\ (Unreachable(lnurlpGot) \/ FailureAbove300(lnurlpGot))
     /\ (Unreachable(keysendGot) \/ FailureAbove300(keysendGot))) =>
    replies[1].status # 200

\* ----------------------------------------------------------------- C10
\* C10: for an accepted address each of the two GETs is issued once, the
\* lnurlp one first and the keysend one only after the lnurlp one has
\* returned, whatever it returned; the one answer to the caller is written
\* only after both have returned.
C10_SequentialFetches ==
  /\ Len(calls) <= 2
  /\ Len(replies) <= 1
  /\ Len(returned) <= Len(calls)
  /\ Len(calls) <= Len(returned) + 1
  /\ \A i \in DOMAIN calls : calls[i].field = (IF i = 1 THEN "lnurlp" ELSE "keysend")
  /\ \A i \in DOMAIN returned : returned[i] = calls[i].field
  /\ (AtCount(ln) = 1 /\ pc = "done") => Len(replies) = 1
  /\ (AtCount(ln) = 1 /\ replies # <<>>) => (Len(calls) = 2 /\ Len(returned) = 2)

C10_Witness ==
  /\ Answered
  /\ Unreachable(lnurlpGot)
  /\ calls = <<[field |-> "lnurlp", url |-> lnurlpUrl], [field |-> "keysend", url |-> keysendUrl]>>
  /\ returned = <<"lnurlp", "keysend">>

====
